---- MODULE Spec2Model ----
(***************************************************************************)
(* Model of sandbox/genbank2gff.py: a command-line script that opens a     *)
(* GenBank file, opens a GFF file for writing, streams the parsed records  *)
(* through the GFF writer and closes both handles.                         *)
(*                                                                         *)
(* The state is the file system the process sees, the process's argument   *)
(* vector, its module-level variables (args, in_file, out_file, the two    *)
(* handles), its position in the script, and how it ended.  One action     *)
(* models each statement of the script (lines 16-25).  An exception that   *)
(* no statement catches ends the process with status 1 and leaves the      *)
(* handles as they were: the script has no try/finally and no with-block.  *)
(***************************************************************************)
EXTENDS Naturals, Sequences, FiniteSets

\* ------------------------------------------------------------------ bounds
\* Longest input file, in records.
MaxRecs == 2
\* Most command-line arguments after the program name.
MaxArgs == 3

\* ------------------------------------------------------- program constants
\* line 13: version = "0.1"
version == "0.1"

\* --------------------------------------------------------------- universe
\* Command-line words: the version flag, the option terminator, two paths.
\* Every word is also a legal file name.
Tokens == {"--version", "--", "a", "b"}
FileNames == Tokens
NoPath == ""

\* GenBank text is a sequence of records: well-formed ones carry a sequence
\* identifier, a malformed one makes the parser raise.
RecIds == {1, 2}
Rec(i) == [kind |-> "rec", id |-> i]
BadRec == [kind |-> "bad", id |-> 0]
GenBankItems == {Rec(i) : i \in RecIds} \cup {BadRec}
GenBankTexts == UNION {[1..n -> GenBankItems] : n \in 0..MaxRecs}

Absent == [exists |-> FALSE, data |-> <<>>]
File(d) == [exists |-> TRUE, data |-> d]

ArgVectors == UNION {[1..n -> Tokens] : n \in 0..MaxArgs}

VARIABLES
  fs,          \* file name -> [exists, data]
  fs0,         \* the file system when the current run started
  sys_argv,    \* sys.argv, program name first
  pc,          \* the statement about to run, or "exited"
  args,        \* positional arguments returned by parser.parse_args()
  in_file,     \* line 19
  out_file,    \* line 20
  in_handle,   \* "unopened", "open" or "closed"
  out_handle,  \* "unopened", "open" or "closed"
  in_pos,      \* records of in_file the lazy parser has consumed
  parsed,      \* the records SeqIO.parse has yielded so far
  stdout,      \* what option parsing printed
  err,         \* the uncaught exception that ended the run, or "none"
  exit_status, \* process exit status, meaningful when pc = "exited"
  run,         \* "first" or "second" invocation
  prev         \* exit status and file system at the end of the first run

vars == <<fs, fs0, sys_argv, pc, args, in_file, out_file, in_handle,
          out_handle, in_pos, parsed, stdout, err, exit_status, run, prev>>

\* ------------------------------------------------------------- helpers
\* GFF.write serialises one record to GFF text keyed by its sequence id.
Serialize(rec) == <<[kind |-> "gff", id |-> rec.id]>>

RECURSIVE SerializeAll(_)
SerializeAll(recs) ==
  IF recs = <<>> THEN <<>>
  ELSE Serialize(Head(recs)) \o SerializeAll(Tail(recs))

\* Variant: a parser built without version=..., for which "--version" is just
\* another word.
RECURSIVE ScanArgsNoVersion(_, _)
ScanArgsNoVersion(rest, acc) ==
  IF rest = <<>> THEN [exits |-> FALSE, args |-> acc]
  ELSE IF Head(rest) = "--" THEN [exits |-> FALSE, args |-> acc \o Tail(rest)]
  ELSE ScanArgsNoVersion(Tail(rest), Append(acc, Head(rest)))

\* optparse (lines 15-16): words are scanned left to right; "--version" prints
\* the version and exits 0; "--" ends option parsing and the rest is
\* positional; any other word is positional (interspersed arguments allowed).
RECURSIVE ScanArgs(_, _)
ScanArgs(rest, acc) ==
  IF rest = <<>> THEN [exits |-> FALSE, args |-> acc]
  ELSE IF Head(rest) = "--version" THEN [exits |-> TRUE, args |-> acc]
  ELSE IF Head(rest) = "--" THEN [exits |-> FALSE, args |-> acc \o Tail(rest)]
  ELSE ScanArgs(Tail(rest), Append(acc, Head(rest)))

\* Variant: open(out_file, "a"), which creates the file but keeps its contents.
OpenForAppend(f, path) == [f EXCEPT ![path] = File(f[path].data)]

\* open(out_file, "w"): create the file or truncate it.
OpenForWrite(f, path) == [f EXCEPT ![path] = File(<<>>)]

\* out_handle.write(text): append at the end of the file.
WriteTo(f, path, text) == [f EXCEPT ![path] = File(f[path].data \o text)]

\* ------------------------------------------------------------------ Init
Init ==
  /\ \E text \in GenBankTexts, present \in SUBSET (FileNames \ {"--version"}) :
       fs = [p \in FileNames |-> IF p \in present THEN File(text) ELSE Absent]
  /\ fs0 = fs
  /\ \E av \in ArgVectors : sys_argv = <<"prog">> \o av
  /\ pc = "parse_args"
  /\ args = <<>>
  /\ in_file = NoPath
  /\ out_file = NoPath
  /\ in_handle = "unopened"
  /\ out_handle = "unopened"
  /\ in_pos = 0
  /\ parsed = <<>>
  /\ stdout = ""
  /\ err = "none"
  /\ exit_status = 0
  /\ run = "first"
  /\ prev = [exit_status |-> 0, fs |-> fs]

\* Variant: the exception is swallowed by a bare handler that calls sys.exit().
RaiseExitsZero(kind) ==
  /\ pc' = "exited"
  /\ err' = kind
  /\ exit_status' = 0

\* An uncaught exception: traceback, status 1, nothing else is run.
Raise(kind) ==
  /\ pc' = "exited"
  /\ err' = kind
  /\ exit_status' = 1

\* --------------------------------------------------------------- actions
\* line 16: (options, args) = parser.parse_args()
ParseArgs ==
  /\ pc = "parse_args"
  /\ LET r == ScanArgs(Tail(sys_argv), <<>>) IN
       IF r.exits
       THEN /\ stdout' = version
            /\ pc' = "exited"
            /\ exit_status' = 0
            /\ UNCHANGED args
       ELSE /\ args' = r.args
            /\ pc' = "read_argv"
            /\ UNCHANGED <<stdout, exit_status>>
  /\ UNCHANGED <<fs, fs0, sys_argv, in_file, out_file, in_handle, out_handle,
                 in_pos, parsed, err, run, prev>>

\* lines 19-20: in_file = sys.argv[1]; out_file = sys.argv[2]
ReadArgv ==
  /\ pc = "read_argv"
  /\ IF Len(sys_argv) < 2
     THEN Raise("IndexError") /\ UNCHANGED <<in_file, out_file>>
     ELSE IF Len(sys_argv) < 3
     THEN Raise("IndexError") /\ in_file' = sys_argv[2] /\ UNCHANGED out_file
     ELSE /\ in_file' = sys_argv[2]
          /\ out_file' = sys_argv[3]
          /\ pc' = "open_in"
          /\ UNCHANGED <<err, exit_status>>
  /\ UNCHANGED <<fs, fs0, sys_argv, args, in_handle, out_handle, in_pos,
                 parsed, stdout, run, prev>>

\* Variant: open(in_file, "a+"), which creates a missing file instead of failing.
OpenInCreating ==
  /\ pc = "open_in"
  /\ \/ /\ fs' = [fs EXCEPT ![in_file] = File(fs[in_file].data)]
        /\ in_handle' = "open"
        /\ pc' = "open_out"
        /\ UNCHANGED <<err, exit_status>>
     \/ Raise("IOError") /\ UNCHANGED <<fs, in_handle>>
  /\ UNCHANGED <<fs0, sys_argv, args, in_file, out_file, out_handle,
                 in_pos, parsed, stdout, run, prev>>

\* line 21: in_handle = open(in_file)
\* Fails when the file does not exist; may fail when it exists (unreadable).
OpenIn ==
  /\ pc = "open_in"
  /\ \/ /\ fs[in_file].exists
        /\ in_handle' = "open"
        /\ pc' = "open_out"
        /\ UNCHANGED <<err, exit_status>>
     \/ Raise("IOError") /\ UNCHANGED in_handle
  /\ UNCHANGED <<fs, fs0, sys_argv, args, in_file, out_file, out_handle,
                 in_pos, parsed, stdout, run, prev>>

\* line 22: out_handle = open(out_file, "w")
\* Truncates or creates the file; may fail (unwritable path).
OpenOut ==
  /\ pc = "open_out"
  /\ \/ /\ fs' = OpenForWrite(fs, out_file)
        /\ out_handle' = "open"
        /\ pc' = "write"
        /\ UNCHANGED <<err, exit_status>>
     \/ Raise("IOError") /\ UNCHANGED <<fs, out_handle>>
  /\ UNCHANGED <<fs0, sys_argv, args, in_file, out_file, in_handle,
                 in_pos, parsed, stdout, run, prev>>

\* line 23: GFF.write(SeqIO.parse(in_handle, "genbank"), out_handle)
\* One iteration of the writer's loop over the lazy parser: the parser reads
\* the next record from the file as it is now; a malformed record raises; a
\* well-formed one is serialised and written, and the write may fail.
WriteRecords ==
  /\ pc = "write"
  /\ IF in_pos >= Len(fs[in_file].data)
     THEN /\ pc' = "close_in"
          /\ UNCHANGED <<fs, in_pos, parsed, err, exit_status>>
     ELSE LET item == fs[in_file].data[in_pos + 1] IN
          IF item.kind # "rec"
          THEN Raise("ParseError") /\ UNCHANGED <<fs, in_pos, parsed>>
          ELSE \/ /\ fs' = WriteTo(fs, out_file, Serialize(item))
                  /\ in_pos' = in_pos + 1
                  /\ parsed' = Append(parsed, item)
                  /\ UNCHANGED <<pc, err, exit_status>>
               \/ /\ Raise("IOError")
                  /\ parsed' = Append(parsed, item)
                  /\ in_pos' = in_pos + 1
                  /\ UNCHANGED fs
  /\ UNCHANGED <<fs0, sys_argv, args, in_file, out_file, in_handle,
                 out_handle, stdout, run, prev>>

\* line 24: in_handle.close()
CloseIn ==
  /\ pc = "close_in"
  /\ in_handle' = "closed"
  /\ pc' = "close_out"
  /\ UNCHANGED <<fs, fs0, sys_argv, args, in_file, out_file, out_handle,
                 in_pos, parsed, stdout, err, exit_status, run, prev>>

\* line 25: out_handle.close(); the script ends, status 0
CloseOut ==
  /\ pc = "close_out"
  /\ out_handle' = "closed"
  /\ pc' = "exited"
  /\ exit_status' = 0
  /\ UNCHANGED <<fs, fs0, sys_argv, args, in_file, out_file, in_handle,
                 in_pos, parsed, stdout, err, run, prev>>

\* The user runs the same command line again on the file system as the first
\* run left it: a fresh process, so every module-level variable starts over.
Rerun ==
  /\ pc = "exited"
  /\ run = "first"
  /\ run' = "second"
  /\ prev' = [exit_status |-> exit_status, fs |-> fs]
  /\ fs0' = fs
  /\ pc' = "parse_args"
  /\ args' = <<>>
  /\ in_file' = NoPath
  /\ out_file' = NoPath
  /\ in_handle' = "unopened"
  /\ out_handle' = "unopened"
  /\ in_pos' = 0
  /\ parsed' = <<>>
  /\ stdout' = ""
  /\ err' = "none"
  /\ exit_status' = 0
  /\ UNCHANGED <<fs, sys_argv>>

Next ==
  \/ ParseArgs
  \/ ReadArgv
  \/ OpenIn
  \/ OpenOut
  \/ WriteRecords
  \/ CloseIn
  \/ CloseOut
  \/ Rerun

Spec == Init /\ [][Next]_vars

\* ----------------------------------------------------------- vocabulary
IsPrefix(s, t) == Len(s) <= Len(t) /\ \A i \in 1..Len(s) : s[i] = t[i]

WellFormed(text) == \A i \in 1..Len(text) : text[i].kind = "rec"

\* The records before the first malformed one.
RECURSIVE GoodPrefix(_)
GoodPrefix(text) ==
  IF text = <<>> \/ Head(text).kind # "rec" THEN <<>>
  ELSE <<Head(text)>> \o GoodPrefix(Tail(text))

\* The whole pipeline ran: both opens, the conversion, both closes.
Completed == in_handle = "closed" /\ out_handle = "closed"

\* The version flag is given as an option: before any "--" terminator.
VersionFlagGiven ==
  \E i \in 2..Len(sys_argv) :
    /\ sys_argv[i] = "--version"
    /\ \A j \in 2..(i - 1) : sys_argv[j] # "--"

NothingOpened == in_handle = "unopened" /\ out_handle = "unopened"

\* ---------------------------------------------------------------- claims
\* C1: when the run has ended, on whatever path, neither the input handle nor
\* the output handle is left opened and never closed.
C1_NoHandleLeftOpen ==
  pc = "exited" => in_handle # "open" /\ out_handle # "open"

\* C2: a successful run on an input of well-formed records r1..rN leaves in
\* the output file exactly the serialisation of r1, ..., rN, in input order.
C2_OutputIsSerialisedInput ==
  (pc = "exited" /\ Completed /\ exit_status = 0
     /\ WellFormed(fs0[in_file].data))
    => fs[out_file].data = SerializeAll(fs0[in_file].data)

C4_TooFewPositionalsOpensNothing ==
  (pc = "exited" /\ stdout # version /\ Len(args) < 2)
    => exit_status # 0 /\ NothingOpened /\ fs = fs0

C6_RerunGivesSameOutput ==
  (run = "second" /\ pc = "exited" /\ Completed /\ exit_status = 0
     /\ prev.exit_status = 0 /\ in_file # out_file)
    => fs[out_file] = prev.fs[out_file]

C6_Witness ==
  /\ run = "second"
  /\ pc = "exited"
  /\ Completed
  /\ prev.exit_status = 0
  /\ in_file # out_file
  /\ Len(fs[out_file].data) >= 2
  /\ fs[out_file] = prev.fs[out_file]

\* C7: when parsing fails at record k+1, the run ends with a nonzero status
\* only after both handles were released, and the output file exists and
\* holds a prefix of the serialisation of records 1..k.
C7_ParseFailureReleasesHandles ==
  (pc = "exited" /\ err = "ParseError")
    => /\ in_handle = "closed"
       /\ out_handle = "closed"
       /\ exit_status # 0
       /\ fs[out_file].exists
       /\ IsPrefix(fs[out_file].data, SerializeAll(GoodPrefix(fs0[in_file].data)))

\* C8: the file opened for reading is the first positional argument and the
\* file opened for writing is the second positional argument, as returned by
\* option parsing.
C8_OpensThePositionalArguments ==
  /\ in_handle # "unopened" => Len(args) >= 1 /\ in_file = args[1]
  /\ out_handle # "unopened" => Len(args) >= 2 /\ out_file = args[2]

\* C9: a run changes no file but the one at output_path, and what the parser
\* reads from input_path is what that file held before the run started, also
\* when both paths name the same file.
C9_InputReadAsItWas ==
  /\ \A p \in FileNames : p # out_file => fs[p] = fs0[p]
  /\ in_handle # "unopened" => IsPrefix(parsed, fs0[in_file].data)
  /\ in_handle = "open" => fs[in_file] = fs0[in_file]
  /\ Completed => parsed = fs0[in_file].data

\* C10: when the version flag is given, option parsing prints the version
\* string and exits with status 0; sys.argv is never read for the paths, no
\* file is opened, created or truncated, however many positional arguments
\* accompany the flag.
C10_VersionExitsBeforeAnyFile ==
  VersionFlagGiven =>
    /\ pc \in {"parse_args", "exited"}
    /\ in_file = NoPath /\ out_file = NoPath
    /\ NothingOpened
    /\ fs = fs0
    /\ pc = "exited" => stdout = version /\ exit_status = 0 /\ err = "none"

C10_Witness ==
  /\ pc = "exited"
  /\ VersionFlagGiven
  /\ stdout = version
  /\ Cardinality({i \in 2..Len(sys_argv) : sys_argv[i] \in {"a", "b"}}) = 2
  /\ fs["a"].exists /\ fs["b"].exists

====
